---- MODULE Spec2Model ----
(***************************************************************************)
(* A model of the blogging platform's client-side state logic:             *)
(*   - the comment tree builder (components/CommentSection.tsx,            *)
(*     organizeComments);                                                  *)
(*   - the filter / URL query synchroniser of the blog-list view           *)
(*     (pages/BlogList.tsx), of the keyword-search view (pages/Search.tsx) *)
(*     and of the BlogProvider that owns the filter object                 *)
(*     (contexts/BlogContext.tsx).                                         *)
(*                                                                         *)
(* An optional JavaScript value (a field that may be undefined) is a set:  *)
(* {} is undefined, {v} is the value v.                                    *)
(***************************************************************************)
EXTENDS Integers, Sequences, FiniteSets, TLC

VARIABLES
    \* ---- comment section ----
    comments,        \* the `comments` prop: the flat list handed to organizeComments
    commentMap,      \* organizeComments' commentMap after the call (id -> node)
    rootComments,    \* organizeComments' return value: node references, in order
    organized,       \* TRUE once organizeComments has run on `comments`
    \* ---- BlogProvider ----
    filters,         \* the authoritative filter object (BlogContext `filters`)
    \* ---- browser ----
    searchParams,    \* the URL query (useSearchParams)
    view,            \* which page is mounted: "none", "list" (BlogList), "search" (Search)
    \* ---- BlogList local state ----
    localSearch,
    selectedCategories,
    \* ---- Search local state ----
    searchQuery,
    searchSelected,  \* Search's own `selectedCategories`
    searchSubmitted,
    \* ---- history (not program state): the handler that ran last ----
    lastOp,
    \* ---- organizeComments on objects with identity ----
    allComments,     \* the argument: the caller's records as they were before the call
    heap,            \* every object (caller's records and the copies made), by reference
    nodeOf,          \* commentMap: id -> reference
    returned,        \* the returned rootComments: references, in order
    outcome,         \* "pending", "returned" or "threw"
    \* ---- BlogProvider: the blog fetch ----
    currentPage,     \* useState(1), written from response.data.page
    isLoading,       \* useState(false)
    effectPending,   \* BlogList's fetch effect is due: filters changed since it ran
    inFlight,        \* getFilteredBlogs calls awaiting their response, oldest first
    lastFetch,       \* history: the filter object of the latest fetchBlogs call
    lastSettled,     \* history: how the latest settled fetchBlogs call ended
    latestFetch,     \* history: how the latest issued fetchBlogs call stands
    \* ---- BlogList: what the handlers of the current render closed over ----
    rendered,
    \* ---- AuthProvider and ProtectedRoute ----
    authState,       \* useState<AuthState>: user, token, isAuthenticated, isLoading
    session,         \* the signed-in user kept by lib/auth across page loads
    authPending,     \* login / register / updateProfile calls awaiting their response
    route,           \* the protected route the visitor is on, if any
    lastAuth,        \* history: the auth operation that ran last and the state before it
    \* ---- CommentSection: what it renders ----
    commentItems,    \* the CommentItem elements, in document order
    \* ---- BlogDetail: likes ----
    currentBlog,     \* BlogProvider currentBlog: its likes, if a blog is loaded
    isLiked,         \* BlogDetail useState(false)
    likeCount,       \* BlogDetail useState(0)
    likePc,          \* handleLike: "idle", "awaiting" (toggleBlogLike), "returning"
    likeResponse,    \* the response likeBlog is returning to handleLike
    blogEffectDue,   \* BlogDetail's effect on [currentBlog] is due
    lastLike,        \* history: the response of the toggle that completed last
    \* ---- BlogProvider: adding a comment ----
    addPending,      \* the parentId of the addBlogComment call awaiting addComment
    lastAdd          \* history: the addBlogComment call that returned last

treeVars == <<comments, commentMap, rootComments, organized>>
filterVars == <<filters, searchParams, view, localSearch, selectedCategories,
                searchQuery, searchSelected, searchSubmitted, lastOp>>
heapVars == <<allComments, heap, nodeOf, returned, outcome>>
fetchVars == <<currentPage, isLoading, effectPending, inFlight, lastFetch, lastSettled,
               latestFetch>>
authVars == <<authState, session, authPending, route, lastAuth>>
\* the providers and views outside the comment tree and the filter synchroniser
likeVars == <<currentBlog, isLiked, likeCount, likePc, likeResponse, blogEffectDue, lastLike>>
addVars == <<addPending, lastAdd>>
appVars == <<authVars, commentItems, likeVars, addVars>>
vars == <<treeVars, filterVars, heapVars, fetchVars, rendered, appVars>>

None == {}
Some(v) == {v}
\* the value held by a defined optional
Get(o) == CHOOSE v \in o : TRUE

(***************************************************************************)
(*                        COMMENT TREE BUILDER                             *)
(***************************************************************************)

\* Bound: the longest comment list handed to organizeComments.
MaxComments == 3

\* Comment ids are opaque non-empty strings in the code; here the numbers
\* 1 .. MaxComments+1.  A parentId may name any of them, so a list always
\* has at least one id it does not contain (an orphan reference).
CommentIds == 1 .. (MaxComments + 1)

\* `parentId?: string` absent.  Ids are non-empty, so the code's truthiness
\* test `if (comment.parentId)` is the test parentId # NoParent.
NoParent == 0

\* A Comment, reduced to the two fields organizeComments reads.
Comment == [id : CommentIds, parentId : CommentIds \cup {NoParent}]

SeqsUpTo(S, n) == UNION {[1 .. k -> S] : k \in 0 .. n}

UniqueIds(all) == \A i, j \in 1 .. Len(all) : all[i].id = all[j].id => i = j

\* The lists the view can receive: ids are unique identifiers (data model).
CommentLists == {all \in SeqsUpTo(Comment, MaxComments) : UniqueIds(all)}

\* commentMap.set(comment.id, { ...comment, replies: [] })
MapSet(map, c) ==
    [k \in DOMAIN map \cup {c.id} |->
        IF k = c.id THEN [comment |-> c, replies |-> <<>>] ELSE map[k]]

\* First pass: allComments.forEach(comment => commentMap.set(...)), items i..Len
RECURSIVE FirstPass(_, _, _)
FirstPass(all, i, map) ==
    IF i > Len(all) THEN map
    ELSE FirstPass(all, i + 1, MapSet(map, all[i]))

\* parent.replies.push(commentWithReplies); a node reference is the node's map key
PushReply_Prepend(st, parentId, id) ==
    [st EXCEPT !.map[parentId].replies = <<id>> \o @]
PushReply(st, parentId, id) ==
    [st EXCEPT !.map[parentId].replies = Append(@, id)]

\* rootComments.push(commentWithReplies)
PushRoot(st, id) == [st EXCEPT !.roots = Append(@, id)]

\* The body of the second forEach, for one comment.
Attach_OrphanToRoot(st, c) ==
    IF c.parentId # NoParent
    THEN IF c.parentId \in DOMAIN st.map
         THEN PushReply(st, c.parentId, c.id)
         ELSE PushRoot(st, c.id)
    ELSE PushRoot(st, c.id)
Attach_ReplyLost(st, c) ==
    IF c.parentId # NoParent
    THEN st
    ELSE PushRoot(st, c.id)
Attach(st, c) ==
    IF c.parentId # NoParent
    THEN IF c.parentId \in DOMAIN st.map
         THEN PushReply(st, c.parentId, c.id)
         ELSE st
    ELSE PushRoot(st, c.id)

\* Second pass: allComments.forEach(...), items i..Len
RECURSIVE SecondPass(_, _, _)
SecondPass(all, i, st) ==
    IF i > Len(all) THEN st
    ELSE SecondPass(all, i + 1, Attach(st, all[i]))

EmptyMap == [k \in {} |-> [comment |-> [id |-> 1, parentId |-> NoParent], replies |-> <<>>]]

\* organizeComments(allComments): [map |-> commentMap, roots |-> rootComments]
organizeComments(all) ==
    SecondPass(all, 1, [map |-> FirstPass(all, 1, EmptyMap), roots |-> <<>>])

\* Depth-first (pre-order) traversal of a sequence of node references over
\* `replies`, at most `fuel` levels deep.
RECURSIVE Flatten(_, _, _)
Flatten(nodes, map, fuel) ==
    IF nodes = <<>> \/ fuel = 0 THEN <<>>
    ELSE <<Head(nodes)>> \o Flatten(map[Head(nodes)].replies, map, fuel - 1)
                         \o Flatten(Tail(nodes), map, fuel)

\* The forest returned for `comments`, flattened (ids in visiting order).
\* A forest over n nodes is at most n levels deep.
Flattened == Flatten(rootComments, commentMap, Len(comments) + 1)

TreeInit ==
    /\ comments \in CommentLists
    /\ commentMap = EmptyMap
    /\ rootComments = <<>>
    /\ organized = FALSE

\* CommentSection renders: const organizedComments = organizeComments(comments)
OrganizeComments ==
    /\ ~organized
    /\ LET r == organizeComments(comments) IN
        /\ commentMap' = r.map
        /\ rootComments' = r.roots
    /\ organized' = TRUE
    /\ UNCHANGED comments

(***************************************************************************)
(*            organizeComments ON OBJECTS WITH IDENTITY                    *)
(* The same function, with the caller's records and the copies it makes    *)
(* as separate objects of a heap, for what depends on who owns an object   *)
(* and on the `replies` a caller's record may already carry.               *)
(***************************************************************************)

\* Bound: the longest list handed to organizeComments in this view of it.
MaxHeapComments == 3

\* Two ids, so that lists of three repeat an id; parentId 1 or 2 is an
\* orphan reference in a list that lacks that id.
HeapIds == {1, 2}

\* a reference to the caller's i-th record / to the copy made of it
In(i) == <<"input", i>>
Node(i) == <<"node", i>>

\* `replies?: Comment[]` as a caller's record may carry it: absent, or a
\* stale array
InputReplies == {None, Some(<<In(1)>>)}

HeapComment == [id : HeapIds, parentId : HeapIds \cup {NoParent}, replies : InputReplies]

\* any list: repeated ids, self-parents, cycles and orphans included
HeapLists == SeqsUpTo(HeapComment, MaxHeapComments)

\* the heap at the call: the caller's records only
InputHeap(all) == [r \in {In(i) : i \in 1 .. Len(all)} |-> all[r[2]]]

\* { ...comment, replies: [] }: a new object
NewNode_NoCopy(h, i) ==
    [ref |-> In(i), heap |-> [h EXCEPT ![In(i)].replies = Some(<<>>)]]
NewNode_KeepReplies(h, i) ==
    [ref  |-> Node(i),
     heap |-> [r \in DOMAIN h \cup {Node(i)} |->
                 IF r = Node(i)
                 THEN [h[In(i)] EXCEPT !.replies = IF @ # None THEN @ ELSE Some(<<>>)]
                 ELSE h[r]]]
NewNode(h, i) ==
    [ref  |-> Node(i),
     heap |-> [r \in DOMAIN h \cup {Node(i)} |->
                 IF r = Node(i) THEN [h[In(i)] EXCEPT !.replies = Some(<<>>)]
                 ELSE h[r]]]

\* commentMap.set(comment.id, <the new object>) for the i-th record
HeapMapSet(hs, i) ==
    LET n == NewNode(hs.heap, i)
        id == hs.heap[In(i)].id IN
    [hs EXCEPT !.heap = n.heap,
               !.map = [k \in DOMAIN hs.map \cup {id} |->
                           IF k = id THEN n.ref ELSE hs.map[k]]]

RECURSIVE HeapFirstPass(_, _, _)
HeapFirstPass(n, i, hs) ==
    IF i > n THEN hs ELSE HeapFirstPass(n, i + 1, HeapMapSet(hs, i))

\* commentMap.get(id): the reference, or undefined
MapGet(map, id) == IF id \in DOMAIN map THEN Some(map[id]) ELSE None

\* parent.replies = parent.replies || []; parent.replies.push(ref).
\* Reading `.replies` of undefined throws a TypeError.
HeapPush(hs, parent, ref) ==
    IF parent = None THEN [hs EXCEPT !.threw = TRUE]
    ELSE [hs EXCEPT !.heap[Get(parent)].replies =
                        Some((IF @ # None THEN Get(@) ELSE <<>>) \o <<ref>>)]

\* The body of the second forEach for the i-th record.
HeapAttach_NoGuard(hs, i) ==
    LET comment == hs.heap[In(i)]
        commentWithReplies == hs.map[comment.id] IN
    IF comment.parentId # NoParent
    THEN HeapPush(hs, MapGet(hs.map, comment.parentId), commentWithReplies)
    ELSE [hs EXCEPT !.roots = Append(@, commentWithReplies)]
HeapAttach(hs, i) ==
    LET comment == hs.heap[In(i)]
        commentWithReplies == hs.map[comment.id] IN
    IF comment.parentId # NoParent
    THEN LET parent == MapGet(hs.map, comment.parentId) IN
         IF parent # None THEN HeapPush(hs, parent, commentWithReplies) ELSE hs
    ELSE [hs EXCEPT !.roots = Append(@, commentWithReplies)]

\* the second forEach; an exception ends the call
RECURSIVE HeapSecondPass(_, _, _)
HeapSecondPass(n, i, hs) ==
    IF i > n \/ hs.threw THEN hs ELSE HeapSecondPass(n, i + 1, HeapAttach(hs, i))

EmptyNodeOf == [k \in {} |-> In(1)]

\* organizeComments(allComments) on the heap
organizeCommentsHeap(all) ==
    HeapSecondPass(Len(all), 1,
        HeapFirstPass(Len(all), 1,
            [heap |-> InputHeap(all), map |-> EmptyNodeOf, roots |-> <<>>, threw |-> FALSE]))

HeapIdle ==
    /\ allComments = <<>>
    /\ heap = InputHeap(<<>>)
    /\ nodeOf = EmptyNodeOf
    /\ returned = <<>>
    /\ outcome = "pending"

HeapInit ==
    /\ allComments \in HeapLists
    /\ heap = InputHeap(allComments)
    /\ nodeOf = EmptyNodeOf
    /\ returned = <<>>
    /\ outcome = "pending"

\* the call organizeComments(comments), from entry to return or exception
OrganizeCommentsHeap ==
    /\ outcome = "pending"
    /\ LET hs == organizeCommentsHeap(allComments) IN
        /\ heap' = hs.heap
        /\ nodeOf' = hs.map
        /\ returned' = IF hs.threw THEN <<>> ELSE hs.roots
        /\ outcome' = IF hs.threw THEN "threw" ELSE "returned"
    /\ UNCHANGED allComments

(***************************************************************************)
(*                   FILTER / URL QUERY SYNCHRONISER                       *)
(***************************************************************************)

\* Bound: the highest page number a pagination button carries.
MaxPage == 3

\* The texts typed into a search box ("" is the empty box).
SearchTexts == {"", "react"}

\* The category slugs fetchCategories delivers.
CategorySlugs == {"tech", "science"}

\* The <SelectItem value="sortBy-sortOrder"> options of the Sort By select.
SortOptions == {<<"createdAt", "desc">>, <<"createdAt", "asc">>, <<"title", "asc">>,
                <<"title", "desc">>, <<"likes", "desc">>, <<"views", "desc">>}

\* BlogList's page size (newFilters.limit) and its fallback in handlePageChange.
BlogListLimit == 12
\* BlogProvider's page size (useState initial value and clearFilters).
ProviderLimit == 10
\* Search's page size.
SearchLimit == 20

\* The fields of BlogFilters the views set (tags and author are never set).
Fields == {"search", "categories", "status", "sortBy", "sortOrder", "limit", "offset"}

\* JavaScript truthiness of an optional string: defined and not "".
Truthy(o) == o # None /\ Get(o) # ""

\* searchParams.get(name) || fallback
GetOr(params, name, fallback) ==
    IF Truthy(params[name]) THEN Get(params[name]) ELSE fallback

\* new URLSearchParams()
EmptyParams == [search |-> None, category |-> None, sort |-> None, order |-> None, q |-> None]

\* useState<BlogFilters>({sortBy: "createdAt", sortOrder: "desc", limit: 10, offset: 0})
ProviderDefaultFilters ==
    [search |-> None, categories |-> None, status |-> None,
     sortBy |-> Some("createdAt"), sortOrder |-> Some("desc"),
     limit |-> Some(ProviderLimit), offset |-> Some(0)]

\* clearFilters(): setFiltersState({sortBy, sortOrder, limit: 10, offset: 0})
clearFilters == ProviderDefaultFilters

\* The queries a visitor may open a page with (typed, bookmarked or linked).
OpenQueries ==
    {[search |-> s, category |-> c, sort |-> so, order |-> o, q |-> qq] :
        s \in {None, Some("react")}, c \in {None, Some("tech")},
        so \in {None, Some("title"), Some("bogus")}, o \in {None, Some("asc")},
        qq \in {None, Some("react")}}

\* The partial updates applyFilters is called with directly (spec 8.4: applyFilters({})).
EmptyPartial == [k \in {} |-> None]

\* {...filters, ...newFilters, offset: 0}
Merge_KeepOffset(f, p) ==
    [k \in Fields |-> IF k \in DOMAIN p THEN p[k] ELSE f[k]]
Merge(f, p) ==
    [k \in Fields |-> IF k = "offset" THEN Some(0)
                      ELSE IF k \in DOMAIN p THEN p[k] ELSE f[k]]

\* applyFilters' "Update URL params" block: the query derived from updatedFilters
ToSearchParams_OmitDefaultSort(f) ==
    [search   |-> IF Truthy(f.search) THEN f.search ELSE None,
     category |-> IF f.categories # None /\ Len(Get(f.categories)) > 0
                  THEN Some(Get(f.categories)[1]) ELSE None,
     sort     |-> IF Truthy(f.sortBy) /\ f.sortBy # Some("createdAt") THEN f.sortBy ELSE None,
     order    |-> IF Truthy(f.sortOrder) /\ f.sortOrder # Some("desc") THEN f.sortOrder ELSE None,
     q        |-> None]
ToSearchParams_WithPage(f) ==
    [search   |-> IF Truthy(f.search) THEN f.search ELSE None,
     category |-> IF f.categories # None /\ Len(Get(f.categories)) > 0
                  THEN Some(Get(f.categories)[1]) ELSE None,
     sort     |-> IF Truthy(f.sortBy) THEN f.sortBy ELSE None,
     order    |-> IF Truthy(f.sortOrder) THEN f.sortOrder ELSE None,
     q        |-> None,
     page     |-> Some("1")]
ToSearchParams_SearchAsQ(f) ==
    [search   |-> None,
     category |-> IF f.categories # None /\ Len(Get(f.categories)) > 0
                  THEN Some(Get(f.categories)[1]) ELSE None,
     sort     |-> IF Truthy(f.sortBy) THEN f.sortBy ELSE None,
     order    |-> IF Truthy(f.sortOrder) THEN f.sortOrder ELSE None,
     q        |-> IF Truthy(f.search) THEN f.search ELSE None]
ToSearchParams(f) ==
    [search   |-> IF Truthy(f.search) THEN f.search ELSE None,
     category |-> IF f.categories # None /\ Len(Get(f.categories)) > 0
                  THEN Some(Get(f.categories)[1]) ELSE None,
     sort     |-> IF Truthy(f.sortBy) THEN f.sortBy ELSE None,
     order    |-> IF Truthy(f.sortOrder) THEN f.sortOrder ELSE None,
     q        |-> None]

\* BlogList mount effect: newFilters built from the URL
FromSearchParams(params) ==
    [search     |-> IF GetOr(params, "search", "") # ""
                    THEN Some(GetOr(params, "search", "")) ELSE None,
     categories |-> IF GetOr(params, "category", "") # ""
                    THEN Some(<<GetOr(params, "category", "")>>) ELSE None,
     status     |-> Some("published"),
     sortBy     |-> Some(GetOr(params, "sort", "createdAt")),
     sortOrder  |-> Some(GetOr(params, "order", "desc")),
     limit      |-> Some(BlogListLimit),
     offset     |-> Some(0)]

\* History: the handler that ran last, its arguments, and the filter object
\* and category selection (of the mounted view) it started from.
NoOp ==
    [op |-> "init", partial |-> EmptyPartial, page |-> 0, cat |-> "",
     filters |-> ProviderDefaultFilters, selected |-> <<>>]
Op(name) ==
    [NoOp EXCEPT !.op = name, !.filters = filters,
                 !.selected = IF view = "search" THEN searchSelected ELSE selectedCategories]

FilterInit ==
    /\ filters = ProviderDefaultFilters
    /\ searchParams = EmptyParams
    /\ view = "none"
    /\ localSearch = ""
    /\ selectedCategories = <<>>
    /\ searchQuery = ""
    /\ searchSelected = <<>>
    /\ searchSubmitted = FALSE
    /\ lastOp = NoOp

SearchLocalReset ==
    /\ searchQuery' = ""
    /\ searchSelected' = <<>>
    /\ searchSubmitted' = FALSE

\* ------------------------------ BlogList -------------------------------

\* The mount effect of BlogList on the URL query `params`.
BlogListMount(params) ==
    /\ view' = "list"
    /\ searchParams' = params
    /\ localSearch' = GetOr(params, "search", "")
    /\ selectedCategories' = IF GetOr(params, "category", "") # ""
                             THEN <<GetOr(params, "category", "")>> ELSE <<>>
    /\ filters' = FromSearchParams(params)
    /\ SearchLocalReset

\* The visitor goes to a page other than /blogs and /search: the view
\* unmounts, the BlogProvider (above the router) keeps the filter object.
Leave ==
    /\ view # "none"
    /\ view' = "none"
    /\ searchParams' = EmptyParams
    /\ localSearch' = ""
    /\ selectedCategories' = <<>>
    /\ SearchLocalReset
    /\ lastOp' = Op("leave")
    /\ UNCHANGED filters

\* The visitor opens /blogs with a query of their own.
OpenBlogList ==
    \E params \in OpenQueries :
        /\ view = "none"
        /\ BlogListMount(params)
        /\ lastOp' = Op("openBlogList")

\* The visitor reloads /blogs: same URL, fresh component state.
ReloadBlogList ==
    /\ view = "list"
    /\ BlogListMount(searchParams)
    /\ lastOp' = Op("reloadBlogList")

\* onChange of the search box
SetLocalSearch ==
    /\ view = "list"
    /\ \E s \in SearchTexts : localSearch' = s
    /\ lastOp' = Op("setLocalSearch")
    /\ UNCHANGED <<filters, searchParams, view, selectedCategories,
                   searchQuery, searchSelected, searchSubmitted>>

\* applyFilters(newFilters): setFilters(updatedFilters); setSearchParams(derived)
applyFilters(p) ==
    /\ filters' = Merge(filters, p)
    /\ searchParams' = ToSearchParams(Merge(filters, p))

\* applyFilters called on its own with the empty update
ApplyFilters ==
    /\ view = "list"
    /\ applyFilters(EmptyPartial)
    /\ lastOp' = [Op("applyFilters") EXCEPT !.partial = EmptyPartial]
    /\ UNCHANGED <<view, localSearch, selectedCategories,
                   searchQuery, searchSelected, searchSubmitted>>

HandleSearchSubmit ==
    /\ view = "list"
    /\ applyFilters([search |-> Some(localSearch)])
    /\ lastOp' = [Op("handleSearchSubmit") EXCEPT !.partial = [search |-> Some(localSearch)]]
    /\ UNCHANGED <<view, localSearch, selectedCategories,
                   searchQuery, searchSelected, searchSubmitted>>

\* the X on the "Search: ..." badge, rendered when filters.search is truthy
RemoveSearch ==
    /\ view = "list"
    /\ Truthy(filters.search)
    /\ localSearch' = ""
    /\ applyFilters([search |-> None])
    /\ lastOp' = [Op("removeSearch") EXCEPT !.partial = [search |-> None]]
    /\ UNCHANGED <<view, selectedCategories, searchQuery, searchSelected, searchSubmitted>>

Includes(s, x) == \E i \in 1 .. Len(s) : s[i] = x
Without(s, x) == SelectSeq(s, LAMBDA c : c # x)

\* BlogList.handleCategoryToggle: the new selection
ToggleMulti_Single(sel, slug) ==
    IF Includes(sel, slug) THEN Without(sel, slug) ELSE <<slug>>
ToggleMulti(sel, slug) ==
    IF Includes(sel, slug) THEN Without(sel, slug) ELSE Append(sel, slug)

CategoriesPartial(sel) == [categories |-> IF Len(sel) > 0 THEN Some(sel) ELSE None]

HandleCategoryToggle ==
    /\ view = "list"
    /\ \E slug \in CategorySlugs :
        LET newSelected == ToggleMulti(selectedCategories, slug) IN
        /\ selectedCategories' = newSelected
        /\ applyFilters(CategoriesPartial(newSelected))
        /\ lastOp' = [Op("handleCategoryToggle") EXCEPT
                        !.partial = CategoriesPartial(newSelected), !.cat = slug]
    /\ UNCHANGED <<view, localSearch, searchQuery, searchSelected, searchSubmitted>>

HandleSortChange ==
    /\ view = "list"
    /\ \E v \in SortOptions :
        LET p == [sortBy |-> Some(v[1]), sortOrder |-> Some(v[2])] IN
        /\ applyFilters(p)
        /\ lastOp' = [Op("handleSortChange") EXCEPT !.partial = p]
    /\ UNCHANGED <<view, localSearch, selectedCategories,
                   searchQuery, searchSelected, searchSubmitted>>

\* handlePageChange(page): newOffset = (page - 1) * (filters.limit || 12)
PageOffset_NoMinusOne(f, page) ==
    page * (IF f.limit # None /\ Get(f.limit) # 0 THEN Get(f.limit) ELSE BlogListLimit)
PageOffset(f, page) ==
    (page - 1) * (IF f.limit # None /\ Get(f.limit) # 0 THEN Get(f.limit) ELSE BlogListLimit)

HandlePageChange ==
    /\ view = "list"
    /\ \E page \in 1 .. MaxPage :
        /\ filters' = [filters EXCEPT !.offset = Some(PageOffset(filters, page))]
        /\ lastOp' = [Op("handlePageChange") EXCEPT !.page = page]
    /\ UNCHANGED <<searchParams, view, localSearch, selectedCategories,
                   searchQuery, searchSelected, searchSubmitted>>

\* filters.search || categories.length > 0 || sortBy !== createdAt || sortOrder !== desc
hasActiveFilters ==
    \/ Truthy(filters.search)
    \/ (filters.categories # None /\ Len(Get(filters.categories)) > 0)
    \/ filters.sortBy # Some("createdAt")
    \/ filters.sortOrder # Some("desc")

\* the "Clear all" button, rendered when hasActiveFilters
ClearAllFilters ==
    /\ view = "list"
    /\ hasActiveFilters
    /\ localSearch' = ""
    /\ selectedCategories' = <<>>
    /\ filters' = clearFilters
    /\ searchParams' = EmptyParams
    /\ lastOp' = Op("clearAllFilters")
    /\ UNCHANGED <<view, searchQuery, searchSelected, searchSubmitted>>

\* ------------------------------- Search --------------------------------

\* Search.handleSearch(query, categoryFilters): the filter object it builds
\* (no offset key)
SearchFilters(query, categoryFilters) ==
    [search     |-> IF query # "" THEN Some(query) ELSE None,
     categories |-> IF Len(categoryFilters) > 0 THEN Some(categoryFilters) ELSE None,
     status     |-> Some("published"),
     sortBy     |-> Some("createdAt"),
     sortOrder  |-> Some("desc"),
     limit      |-> Some(SearchLimit),
     offset     |-> None]

\* Search.handleSearch: the URL it writes
SearchParamsOf_SearchKey(query, categoryFilters) ==
    [EmptyParams EXCEPT
        !.search = IF query # "" THEN Some(query) ELSE None,
        !.category = IF Len(categoryFilters) > 0 THEN Some(categoryFilters[1]) ELSE None]
SearchParamsOf(query, categoryFilters) ==
    [EmptyParams EXCEPT
        !.q = IF query # "" THEN Some(query) ELSE None,
        !.category = IF Len(categoryFilters) > 0 THEN Some(categoryFilters[1]) ELSE None]

\* Search.handleSearch(query, categoryFilters)
handleSearch(query, categoryFilters) ==
    /\ filters' = SearchFilters(query, categoryFilters)
    /\ searchSubmitted' = TRUE
    /\ searchParams' = SearchParamsOf(query, categoryFilters)

BlogListLocalReset ==
    /\ localSearch' = ""
    /\ selectedCategories' = <<>>

\* The visitor opens /search with a query of their own: Search's mount effect.
OpenSearch ==
    \E params \in OpenQueries :
        LET urlQuery == GetOr(params, "q", "")
            urlCategory == GetOr(params, "category", "") IN
        /\ view = "none"
        /\ view' = "search"
        /\ searchSelected' = <<>>
        /\ IF urlQuery # ""
           THEN /\ searchQuery' = urlQuery
                /\ handleSearch(urlQuery, IF urlCategory # "" THEN <<urlCategory>> ELSE <<>>)
           ELSE /\ searchQuery' = ""
                /\ searchSubmitted' = FALSE
                /\ searchParams' = params
                /\ UNCHANGED filters
        /\ BlogListLocalReset
        /\ lastOp' = Op("openSearch")

\* onChange of Search's query box
SetSearchQuery ==
    /\ view = "search"
    /\ \E s \in SearchTexts : searchQuery' = s
    /\ lastOp' = Op("setSearchQuery")
    /\ UNCHANGED <<filters, searchParams, view, localSearch, selectedCategories,
                   searchSelected, searchSubmitted>>

\* Search.handleSearchSubmit
SearchSubmit ==
    /\ view = "search"
    /\ handleSearch(searchQuery, searchSelected)
    /\ lastOp' = Op("searchSubmit")
    /\ UNCHANGED <<view, localSearch, selectedCategories, searchQuery, searchSelected>>

\* the X on Search's "Search: ..." badge, rendered when searchQuery is truthy
SearchRemoveQuery ==
    /\ view = "search"
    /\ searchQuery # ""
    /\ searchQuery' = ""
    /\ handleSearch("", searchSelected)
    /\ lastOp' = Op("searchRemoveQuery")
    /\ UNCHANGED <<view, localSearch, selectedCategories, searchSelected>>

\* Search.handleCategoryToggle: the new selection
ToggleSingle_Extend(sel, slug) ==
    IF Includes(sel, slug) THEN Without(sel, slug) ELSE Append(sel, slug)
ToggleSingle(sel, slug) ==
    IF Includes(sel, slug) THEN Without(sel, slug) ELSE <<slug>>

SearchCategoryToggle ==
    /\ view = "search"
    /\ \E slug \in CategorySlugs :
        LET newSelected == ToggleSingle(searchSelected, slug) IN
        /\ searchSelected' = newSelected
        /\ handleSearch(searchQuery, newSelected)
        /\ lastOp' = [Op("searchCategoryToggle") EXCEPT !.cat = slug]
    /\ UNCHANGED <<view, localSearch, selectedCategories, searchQuery>>

\* Search.clearSearch, behind the Clear button rendered when
\* searchQuery || selectedCategories.length > 0 || searchSubmitted
ClearSearch ==
    /\ view = "search"
    /\ (searchQuery # "" \/ Len(searchSelected) > 0 \/ searchSubmitted)
    /\ searchQuery' = ""
    /\ searchSelected' = <<>>
    /\ searchSubmitted' = FALSE
    /\ searchParams' = EmptyParams
    /\ filters' = [SearchFilters("", <<>>) EXCEPT !.offset = None]
    /\ lastOp' = Op("clearSearch")
    /\ UNCHANGED <<view, localSearch, selectedCategories>>

(***************************************************************************)
(*                     BlogProvider: THE BLOG FETCH                        *)
(***************************************************************************)

\* Bound: getFilteredBlogs calls awaiting their response at one time.
MaxInFlight == 2

\* response.data.page of getFilteredBlogs(f): the page of the window asked
\* for, offset / limit + 1, with no offset meaning the first window.
ResponsePage(f) ==
    IF f.offset = None \/ f.limit = None THEN 1
    ELSE (Get(f.offset) \div Get(f.limit)) + 1

FetchIdle ==
    /\ currentPage = 1
    /\ isLoading = FALSE
    /\ effectPending = FALSE
    /\ inFlight = <<>>
    /\ lastFetch = None
    /\ lastSettled = "none"
    /\ latestFetch = "none"

\* fetchBlogs(f) up to its await: setIsLoading(true), getFilteredBlogs(f)
fetchBlogs(f) ==
    /\ Len(inFlight) < MaxInFlight
    /\ isLoading' = TRUE
    /\ inFlight' = Append(inFlight, ResponsePage(f))
    /\ lastFetch' = Some(f)
    /\ latestFetch' = "pending"
    /\ UNCHANGED lastSettled

\* fetchBlogs after its await: the `if (response.success && response.data)`
\* body, then `finally`. Nothing else of the provider is written.
fetchBlogsSettled_Rollback(success, page) ==
    /\ currentPage' = IF success THEN page ELSE currentPage
    /\ isLoading' = FALSE
    /\ IF success THEN UNCHANGED filterVars
       ELSE /\ filters' = ProviderDefaultFilters
            /\ searchParams' = EmptyParams
            /\ UNCHANGED <<view, localSearch, selectedCategories, searchQuery,
                           searchSelected, searchSubmitted, lastOp>>
fetchBlogsSettled(success, page) ==
    /\ currentPage' = IF success THEN page ELSE currentPage
    /\ isLoading' = FALSE
    /\ UNCHANGED filterVars

\* the latest issued call is the last of the pending ones, while it pends
Settled(i, how) ==
    IF latestFetch = "pending" /\ i = Len(inFlight) THEN how ELSE latestFetch

RemoveAt(seq, i) == [k \in 1 .. (Len(seq) - 1) |-> IF k < i THEN seq[k] ELSE seq[k + 1]]

\* A response with success and data arrives for the i-th pending call.
FetchSucceeds ==
    \E i \in 1 .. Len(inFlight) :
        /\ fetchBlogsSettled(TRUE, inFlight[i])
        /\ inFlight' = RemoveAt(inFlight, i)
        /\ lastSettled' = "ok"
        /\ latestFetch' = Settled(i, "ok")
        /\ UNCHANGED <<effectPending, lastFetch>>

\* A response with success: false arrives for the i-th pending call.
FetchUnsuccessful ==
    \E i \in 1 .. Len(inFlight) :
        /\ fetchBlogsSettled(FALSE, inFlight[i])
        /\ inFlight' = RemoveAt(inFlight, i)
        /\ lastSettled' = "unsuccessful"
        /\ latestFetch' = Settled(i, "unsuccessful")
        /\ UNCHANGED <<effectPending, lastFetch>>

\* The promise of the i-th pending call rejects: no catch, `finally` runs.
FetchRejects ==
    \E i \in 1 .. Len(inFlight) :
        /\ fetchBlogsSettled(FALSE, inFlight[i])
        /\ inFlight' = RemoveAt(inFlight, i)
        /\ lastSettled' = "rejected"
        /\ latestFetch' = Settled(i, "rejected")
        /\ UNCHANGED <<effectPending, lastFetch>>

\* BlogList's useEffect(() => { fetchBlogs(filters) }, [filters, fetchBlogs])
\* after a render with a new filter object
FetchEffect ==
    /\ effectPending
    /\ view = "list"
    /\ fetchBlogs(filters)
    /\ effectPending' = FALSE
    /\ UNCHANGED <<currentPage, filterVars>>

\* React runs the effects of a render before it handles the next event.
EffectsFlushed == ~effectPending

\* a handler that touches neither the filter object nor the fetch
NoFetch == EffectsFlushed /\ UNCHANGED fetchVars

\* a BlogList handler that called setFilters: the next render has a new
\* filter object, so the fetch effect is due
FiltersSetInList ==
    /\ EffectsFlushed
    /\ effectPending' = TRUE
    /\ UNCHANGED <<currentPage, isLoading, inFlight, lastFetch, lastSettled, latestFetch>>

\* BlogList mounts: the fetch effect runs with the filter object of the
\* first render, and the mount effect's setFilters makes it due again
MountFetch ==
    /\ EffectsFlushed
    /\ fetchBlogs(filters)
    /\ effectPending' = TRUE
    /\ UNCHANGED currentPage

\* the page is loaded anew: a new BlogProvider, then BlogList mounts
ReloadFetch ==
    /\ EffectsFlushed
    /\ currentPage' = 1
    /\ isLoading' = TRUE
    /\ inFlight' = <<ResponsePage(ProviderDefaultFilters)>>
    /\ lastFetch' = Some(ProviderDefaultFilters)
    /\ lastSettled' = "none"
    /\ latestFetch' = "pending"
    /\ effectPending' = TRUE

\* a Search handler: handleSearch calls fetchBlogs(searchFilters) itself;
\* Search has no effect on the filter object
SearchFetch ==
    /\ EffectsFlushed
    /\ IF searchSubmitted'
       THEN fetchBlogs(filters') /\ UNCHANGED <<currentPage, effectPending>>
       ELSE UNCHANGED fetchVars

(***************************************************************************)
(*              BlogList: HANDLER CALLS WITHIN ONE RENDER                  *)
(* The handlers are closures of a render: they read the `filters`,         *)
(* `selectedCategories` and `localSearch` of that render, and see what a   *)
(* call has set only after the next render.                                *)
(***************************************************************************)

\* what a render of BlogList hands to its handlers
Closure(f, sel, text) == [filters |-> f, selectedCategories |-> sel, localSearch |-> text]

RenderIdle == rendered = Closure(ProviderDefaultFilters, <<>>, "")

\* BlogList renders again after state was set
Render ==
    /\ view = "list"
    /\ rendered # Closure(filters, selectedCategories, localSearch)
    /\ rendered' = Closure(filters, selectedCategories, localSearch)
    /\ UNCHANGED filterVars

\* BlogList mounts and renders with what its mount effect set
MountRendered == rendered' = Closure(filters', selectedCategories', localSearch')

\* applyFilters(newFilters) of the render `r`: { ...filters, ...newFilters, offset: 0 }
applyFiltersIn(r, p) ==
    /\ filters' = Merge(r.filters, p)
    /\ searchParams' = ToSearchParams(Merge(r.filters, p))

\* handleSearchSubmit of the current render
SearchSubmitInRender ==
    /\ view = "list"
    /\ applyFiltersIn(rendered, [search |-> Some(rendered.localSearch)])
    /\ lastOp' = [Op("handleSearchSubmit") EXCEPT
                    !.partial = [search |-> Some(rendered.localSearch)]]
    /\ UNCHANGED <<view, localSearch, selectedCategories,
                   searchQuery, searchSelected, searchSubmitted, rendered>>

\* handleCategoryToggle of the current render
CategoryToggleInRender ==
    /\ view = "list"
    /\ \E slug \in CategorySlugs :
        LET newSelected == ToggleMulti(rendered.selectedCategories, slug) IN
        /\ selectedCategories' = newSelected
        /\ applyFiltersIn(rendered, CategoriesPartial(newSelected))
        /\ lastOp' = [Op("handleCategoryToggle") EXCEPT
                        !.partial = CategoriesPartial(newSelected), !.cat = slug]
    /\ UNCHANGED <<view, localSearch, searchQuery, searchSelected, searchSubmitted, rendered>>

\* handlePageChange of the current render
PageChangeInRender ==
    /\ view = "list"
    /\ \E page \in 1 .. MaxPage :
        /\ filters' = [rendered.filters EXCEPT
                         !.offset = Some(PageOffset(rendered.filters, page))]
        /\ lastOp' = [Op("handlePageChange") EXCEPT !.page = page]
    /\ UNCHANGED <<searchParams, view, localSearch, selectedCategories,
                   searchQuery, searchSelected, searchSubmitted, rendered>>

(***************************************************************************)
(*                   AuthProvider AND ProtectedRoute                       *)
(***************************************************************************)

\* User.role; a user is told apart by the role only
Roles == {"user", "admin"}

\* useState<AuthState>({user: null, token: null, isAuthenticated: false, isLoading: true})
InitialAuthState ==
    [user |-> None, token |-> None, isAuthenticated |-> FALSE, isLoading |-> TRUE]

\* the asynchronous operations of the AuthProvider
AuthCalls == {"login", "register", "updateProfile"}

NoAuthOp == [op |-> "init", before |-> InitialAuthState]
AuthOp(name) == [op |-> name, before |-> authState]

\* the AuthProvider is constructed; a visitor may return with a session
AuthInit ==
    /\ authState = InitialAuthState
    /\ session \in {None} \cup {Some(u) : u \in Roles}
    /\ authPending = {}
    /\ route = "none"
    /\ lastAuth = NoAuthOp

\* no AuthProvider in the picture
AuthIdle ==
    /\ authState = InitialAuthState
    /\ session = None
    /\ authPending = {}
    /\ route = "none"
    /\ lastAuth = NoAuthOp

\* lib/auth: checkAuth() and getCurrentAuthUser() read the kept session
checkAuth == session # None
getCurrentAuthUser == session

\* checkAuthentication(), run by the mount effect and offered to consumers
CheckAuthentication ==
    /\ authState' = [user            |-> getCurrentAuthUser,
                     token           |-> IF getCurrentAuthUser # None
                                         THEN Some("valid-token") ELSE None,
                     isAuthenticated |-> checkAuth,
                     isLoading       |-> FALSE]
    /\ lastAuth' = AuthOp("checkAuthentication")
    /\ UNCHANGED <<session, authPending, route>>

\* login(credentials) / register(credentials) up to the await
SignInStart ==
    \E call \in {"login", "register"} :
        /\ call \notin authPending
        /\ authState' = [authState EXCEPT !.isLoading = TRUE]
        /\ authPending' = authPending \cup {call}
        /\ lastAuth' = AuthOp(call)
        /\ UNCHANGED <<session, route>>

\* setAuthState of login / register after the await
signInSettled(success, u) ==
    IF success
    THEN [user |-> Some(u), token |-> Some("token"),
          isAuthenticated |-> TRUE, isLoading |-> FALSE]
    ELSE [authState EXCEPT !.isLoading = FALSE]

\* authLogin / authRegister answers with success and data; lib/auth keeps
\* the session
SignInSucceeds ==
    \E call \in authPending \cap {"login", "register"}, u \in Roles :
        /\ authState' = signInSettled(TRUE, u)
        /\ session' = Some(u)
        /\ authPending' = authPending \ {call}
        /\ lastAuth' = AuthOp(call \o "Succeeded")
        /\ UNCHANGED route

\* authLogin / authRegister answers with success: false, or throws
SignInFails ==
    \E call \in authPending \cap {"login", "register"} :
        /\ authState' = signInSettled(FALSE, "user")
        /\ authPending' = authPending \ {call}
        /\ lastAuth' = AuthOp(call \o "Failed")
        /\ UNCHANGED <<session, route>>

\* logout(): authLogout(), then the signed-out state
logout ==
    [user |-> None, token |-> None, isAuthenticated |-> FALSE, isLoading |-> FALSE]

Logout ==
    /\ authState' = logout
    /\ session' = None
    /\ lastAuth' = AuthOp("logout")
    /\ UNCHANGED <<authPending, route>>

\* updateProfile(updates) up to the await; without a user it returns
\* { success: false } at once
UpdateProfileStart ==
    /\ authState.user # None
    /\ "updateProfile" \notin authPending
    /\ authPending' = authPending \cup {"updateProfile"}
    /\ lastAuth' = AuthOp("updateProfile")
    /\ UNCHANGED <<authState, session, route>>

\* updateUserProfile answers with success and data:
\* setAuthState((prev) => ({ ...prev, user: response.data }))
UpdateProfileSucceeds ==
    \E u \in Roles :
        /\ "updateProfile" \in authPending
        /\ authState' = [authState EXCEPT !.user = Some(u)]
        /\ authPending' = authPending \ {"updateProfile"}
        /\ lastAuth' = AuthOp("updateProfileSucceeded")
        /\ UNCHANGED <<session, route>>

\* updateUserProfile answers with success: false, or throws
UpdateProfileFails ==
    /\ "updateProfile" \in authPending
    /\ authPending' = authPending \ {"updateProfile"}
    /\ lastAuth' = AuthOp("updateProfileFailed")
    /\ UNCHANGED <<authState, session, route>>

\* ProtectedRoute({children, adminOnly}): what it returns
ProtectedRoute_NoAdminCheck(adminOnly) ==
    IF authState.isLoading THEN "spinner"
    ELSE IF ~authState.isAuthenticated THEN "login"
    ELSE "children"
ProtectedRoute(adminOnly) ==
    IF authState.isLoading THEN "spinner"
    ELSE IF ~authState.isAuthenticated THEN "login"
    ELSE IF adminOnly /\ authState.user # Some("admin") THEN "dashboard"
    ELSE "children"

\* the routes of App wrapped in ProtectedRoute: plain, or adminOnly (/admin)
ProtectedRoutes == {"plain", "adminOnly"}

\* what the route the visitor is on renders now
RouteRenders == ProtectedRoute(route = "adminOnly")

\* the visitor goes to a protected route
OpenProtectedRoute ==
    /\ route = "none"
    /\ route' \in ProtectedRoutes
    /\ UNCHANGED <<authState, session, authPending, lastAuth>>

\* <Navigate replace />: the router leaves the protected route
FollowRedirect ==
    /\ route # "none"
    /\ RouteRenders \in {"login", "dashboard"}
    /\ route' = "none"
    /\ UNCHANGED <<authState, session, authPending, lastAuth>>

\* the visitor leaves the page the route shows
LeaveRoute ==
    /\ route # "none"
    /\ RouteRenders = "children"
    /\ route' = "none"
    /\ UNCHANGED <<authState, session, authPending, lastAuth>>

(***************************************************************************)
(*                 CommentSection: THE RENDERED THREAD                     *)
(***************************************************************************)

\* Bound: the longest comment list rendered; four comments nest to depth 3.
MaxThread == 4

\* the depth from which CommentItem offers no Reply control
ReplyDepthCap == 3

\* comment lists with the ids 1 .. n in order and any parentId, an id that is
\* not in the list (n + 1) included
ThreadLists ==
    UNION {{[i \in 1 .. n |-> [id |-> i, parentId |-> ps[i]]] :
                ps \in [1 .. n -> 0 .. (n + 1)]} : n \in 0 .. MaxThread}

\* organizedComments.map(CommentItem) and, in CommentItem,
\* comment.replies?.map(reply => <CommentItem depth={depth + 1} />):
\* per element its comment, its depth and whether the Reply control shows
RECURSIVE CommentItems_CapHides(_, _, _)
CommentItems_CapHides(nodes, map, depth) ==
    IF nodes = <<>> \/ depth >= ReplyDepthCap THEN <<>>
    ELSE <<[id    |-> Head(nodes),
            depth |-> depth,
            reply |-> authState.user # None /\ depth < ReplyDepthCap]>>
         \o CommentItems_CapHides(map[Head(nodes)].replies, map, depth + 1)
         \o CommentItems_CapHides(Tail(nodes), map, depth)
RECURSIVE CommentItems(_, _, _)
CommentItems(nodes, map, depth) ==
    IF nodes = <<>> THEN <<>>
    ELSE <<[id    |-> Head(nodes),
            depth |-> depth,
            reply |-> authState.user # None /\ depth < ReplyDepthCap]>>
         \o CommentItems(map[Head(nodes)].replies, map, depth + 1)
         \o CommentItems(Tail(nodes), map, depth)

\* CommentSection renders: organizeComments(comments), then the elements
RenderCommentSection ==
    /\ OrganizeComments
    /\ commentItems' = CommentItems(rootComments', commentMap', 0)

(***************************************************************************)
(*                         BlogDetail: LIKES                               *)
(***************************************************************************)

\* Bound: the largest like count a response carries.
MaxLikes == 3

\* BlogDetail mounted, no blog loaded yet
LikeIdle ==
    /\ currentBlog = None
    /\ isLiked = FALSE
    /\ likeCount = 0
    /\ likePc = "idle"
    /\ likeResponse = None
    /\ blogEffectDue = FALSE
    /\ lastLike = None

\* fetchBlog(slug) answers with success and data: setCurrentBlog(response.data)
FetchBlogSucceeds ==
    \E likes \in 0 .. MaxLikes :
        /\ likePc = "idle"
        /\ ~blogEffectDue
        /\ currentBlog' = Some(likes)
        /\ blogEffectDue' = TRUE
        /\ lastLike' = None
        /\ UNCHANGED <<isLiked, likeCount, likePc, likeResponse>>

\* useEffect(..., [currentBlog, fetchComments]):
\* setLikeCount(currentBlog.likes); setIsLiked(false)
CurrentBlogEffect ==
    /\ blogEffectDue
    /\ currentBlog # None
    /\ likeCount' = Get(currentBlog)
    /\ isLiked' = FALSE
    /\ blogEffectDue' = FALSE
    /\ UNCHANGED <<currentBlog, likePc, likeResponse, lastLike>>

\* handleLike up to `await likeBlog(currentBlog.id)`
HandleLike ==
    /\ currentBlog # None
    /\ likePc = "idle"
    /\ ~blogEffectDue
    /\ likePc' = "awaiting"
    /\ lastLike' = None
    /\ UNCHANGED <<currentBlog, isLiked, likeCount, likeResponse, blogEffectDue>>

\* likeBlog after `await toggleBlogLike(blogId)` with success and data:
\* setCurrentBlog(prev => ({ ...prev, likes: likeCount })), return response
LikeBlogSucceeds ==
    \E liked \in BOOLEAN, n \in 0 .. MaxLikes :
        /\ likePc = "awaiting"
        /\ currentBlog' = Some(n)
        /\ blogEffectDue' = TRUE
        /\ likeResponse' = Some([liked |-> liked, likeCount |-> n])
        /\ likePc' = "returning"
        /\ UNCHANGED <<isLiked, likeCount, lastLike>>

\* toggleBlogLike answers with success: false or throws: handleLike sets nothing
LikeBlogFails ==
    /\ likePc = "awaiting"
    /\ likePc' = "idle"
    /\ UNCHANGED <<currentBlog, isLiked, likeCount, likeResponse, blogEffectDue, lastLike>>

\* handleLike after its await: setIsLiked(response.data.liked);
\* setLikeCount(response.data.likeCount)
HandleLikeResumes ==
    /\ likePc = "returning"
    /\ isLiked' = Get(likeResponse).liked
    /\ likeCount' = Get(likeResponse).likeCount
    /\ lastLike' = likeResponse
    /\ likeResponse' = None
    /\ likePc' = "idle"
    /\ UNCHANGED <<currentBlog, blogEffectDue>>

(***************************************************************************)
(*                   BlogProvider: ADDING A COMMENT                        *)
(***************************************************************************)

\* Bound: the comments the list holds before anything is added.
MaxExisting == 3

\* Bound: the addBlogComment calls made.
MaxAdds == 1

NoAdd == [outcome |-> "none", success |-> FALSE, before |-> <<>>, parentId |-> NoParent,
          id |-> 0, count |-> 0]

AddIdle ==
    /\ addPending = None
    /\ lastAdd = NoAdd

\* response.data of addComment(blogId, content, parentId): a comment with an
\* id no comment has or refers to, and the parentId asked for
NewComment(all, parentId) == [id |-> Len(all) + 2, parentId |-> parentId]

\* handleSubmitComment (no parentId) or handleReply(content, comment.id) from
\* a CommentItem that shows the Reply control, through handleAddComment, up
\* to `await addComment(...)`
HandleAddComment ==
    /\ organized
    /\ addPending = None
    /\ lastAdd.count < MaxAdds
    /\ \/ authState.isAuthenticated /\ addPending' = Some(NoParent)
       \/ \E k \in 1 .. Len(commentItems) :
            commentItems[k].reply /\ addPending' = Some(commentItems[k].id)
    /\ UNCHANGED <<treeVars, commentItems, lastAdd>>

\* addBlogComment after the await: the comment list and what it returns
addBlogCommentSettled_Append(prev, how, data) ==
    [comments |-> IF how = "ok" THEN Append(prev, data) ELSE prev,
     success  |-> how = "ok"]
addBlogCommentSettled(prev, how, data) ==
    [comments |-> IF how = "ok" THEN <<data>> \o prev ELSE prev,
     success  |-> how = "ok"]

\* addComment answers: "ok" (success and data), "unsuccessful", or "throws"
AddCommentSettles(how) ==
    /\ addPending # None
    /\ LET data == NewComment(comments, Get(addPending))
           r == addBlogCommentSettled(comments, how, data) IN
        /\ comments' = r.comments
        /\ organized' = (organized /\ r.comments = comments)
        /\ lastAdd' = [outcome |-> how, success |-> r.success, before |-> comments,
                       parentId |-> Get(addPending), id |-> data.id,
                       count |-> lastAdd.count + 1]
    /\ addPending' = None
    /\ UNCHANGED <<commentMap, rootComments, commentItems>>

AddCommentSucceeds == AddCommentSettles("ok")
AddCommentUnsuccessful == AddCommentSettles("unsuccessful")
AddCommentThrows == AddCommentSettles("throws")

\* the providers and views outside the comment tree and the filters, unused
AppIdle == AuthIdle /\ commentItems = <<>> /\ LikeIdle /\ AddIdle

(***************************************************************************)
(*                           SPECIFICATIONS                                *)
(***************************************************************************)

\* The filter synchroniser alone; the comment section shows an empty list.
Init ==
    /\ FilterInit
    /\ comments = <<>>
    /\ commentMap = EmptyMap
    /\ rootComments = <<>>
    /\ organized = FALSE
    /\ HeapIdle
    /\ FetchIdle
    /\ RenderIdle
    /\ AppIdle

Next ==
    \/ (Leave /\ UNCHANGED <<appVars, treeVars, heapVars, fetchVars, rendered>>)
    \/ (OpenBlogList /\ UNCHANGED <<appVars, treeVars, heapVars, fetchVars, rendered>>)
    \/ (ReloadBlogList /\ UNCHANGED <<appVars, treeVars, heapVars, fetchVars, rendered>>)
    \/ (SetLocalSearch /\ UNCHANGED <<appVars, treeVars, heapVars, fetchVars, rendered>>)
    \/ (ApplyFilters /\ UNCHANGED <<appVars, treeVars, heapVars, fetchVars, rendered>>)
    \/ (HandleSearchSubmit /\ UNCHANGED <<appVars, treeVars, heapVars, fetchVars, rendered>>)
    \/ (RemoveSearch /\ UNCHANGED <<appVars, treeVars, heapVars, fetchVars, rendered>>)
    \/ (HandleCategoryToggle /\ UNCHANGED <<appVars, treeVars, heapVars, fetchVars, rendered>>)
    \/ (HandleSortChange /\ UNCHANGED <<appVars, treeVars, heapVars, fetchVars, rendered>>)
    \/ (HandlePageChange /\ UNCHANGED <<appVars, treeVars, heapVars, fetchVars, rendered>>)
    \/ (ClearAllFilters /\ UNCHANGED <<appVars, treeVars, heapVars, fetchVars, rendered>>)
    \/ (OpenSearch /\ UNCHANGED <<appVars, treeVars, heapVars, fetchVars, rendered>>)
    \/ (SetSearchQuery /\ UNCHANGED <<appVars, treeVars, heapVars, fetchVars, rendered>>)
    \/ (SearchSubmit /\ UNCHANGED <<appVars, treeVars, heapVars, fetchVars, rendered>>)
    \/ (SearchRemoveQuery /\ UNCHANGED <<appVars, treeVars, heapVars, fetchVars, rendered>>)
    \/ (SearchCategoryToggle /\ UNCHANGED <<appVars, treeVars, heapVars, fetchVars, rendered>>)
    \/ (ClearSearch /\ UNCHANGED <<appVars, treeVars, heapVars, fetchVars, rendered>>)

Spec == Init /\ [][Next]_vars

\* The comment tree builder applied to every bounded comment list.
InitTree ==
    /\ TreeInit
    /\ FilterInit
    /\ HeapIdle
    /\ FetchIdle
    /\ RenderIdle
    /\ AppIdle

NextTree == OrganizeComments /\ UNCHANGED <<appVars, filterVars, heapVars, fetchVars, rendered>>

SpecTree == InitTree /\ [][NextTree]_vars

\* The URL queries a visitor opens a view with, where the fetch is looked at.
FetchQueries ==
    {EmptyParams,
     [EmptyParams EXCEPT !.category = Some("tech")],
     [EmptyParams EXCEPT !.q = Some("react")]}

\* The filter synchroniser with the blog fetch of the BlogProvider.
NextFetch ==
    \/ (Leave /\ NoFetch /\ UNCHANGED <<appVars, treeVars, heapVars, rendered>>)
    \/ (OpenBlogList /\ searchParams' \in FetchQueries /\ MountFetch /\ UNCHANGED <<appVars, treeVars, heapVars, rendered>>)
    \/ (ReloadBlogList /\ ReloadFetch /\ UNCHANGED <<appVars, treeVars, heapVars, rendered>>)
    \/ (HandleCategoryToggle /\ lastOp'.cat = "tech" /\ FiltersSetInList /\ UNCHANGED <<appVars, treeVars, heapVars, rendered>>)
    \/ (HandlePageChange /\ FiltersSetInList /\ UNCHANGED <<appVars, treeVars, heapVars, rendered>>)
    \/ (ClearAllFilters /\ FiltersSetInList /\ UNCHANGED <<appVars, treeVars, heapVars, rendered>>)
    \/ (OpenSearch /\ searchParams' \in FetchQueries /\ SearchFetch /\ UNCHANGED <<appVars, treeVars, heapVars, rendered>>)
    \/ (SetSearchQuery /\ NoFetch /\ UNCHANGED <<appVars, treeVars, heapVars, rendered>>)
    \/ (SearchSubmit /\ SearchFetch /\ UNCHANGED <<appVars, treeVars, heapVars, rendered>>)
    \/ (ClearSearch /\ NoFetch /\ UNCHANGED <<appVars, treeVars, heapVars, rendered>>)
    \/ (FetchEffect /\ UNCHANGED <<appVars, treeVars, heapVars, rendered>>)
    \/ (FetchSucceeds /\ UNCHANGED <<appVars, treeVars, heapVars, rendered>>)
    \/ (FetchUnsuccessful /\ UNCHANGED <<appVars, treeVars, heapVars, rendered>>)
    \/ (FetchRejects /\ UNCHANGED <<appVars, treeVars, heapVars, rendered>>)

SpecFetch == Init /\ [][NextFetch]_vars

\* The blog list with handler calls that need not wait for the next render.
NextRender ==
    \/ (Leave /\ UNCHANGED <<appVars, treeVars, heapVars, fetchVars, rendered>>)
    \/ (OpenBlogList /\ searchParams' \in FetchQueries /\ MountRendered
            /\ UNCHANGED <<appVars, treeVars, heapVars, fetchVars>>)
    \/ (SetLocalSearch /\ UNCHANGED <<appVars, treeVars, heapVars, fetchVars, rendered>>)
    \/ (Render /\ UNCHANGED <<appVars, treeVars, heapVars, fetchVars>>)
    \/ (SearchSubmitInRender /\ UNCHANGED <<appVars, treeVars, heapVars, fetchVars>>)
    \/ (CategoryToggleInRender /\ UNCHANGED <<appVars, treeVars, heapVars, fetchVars>>)
    \/ (PageChangeInRender /\ UNCHANGED <<appVars, treeVars, heapVars, fetchVars>>)

SpecRender == Init /\ [][NextRender]_vars

\* everything but the AuthProvider at rest
InitAuth ==
    /\ AuthInit
    /\ FilterInit
    /\ comments = <<>>
    /\ commentMap = EmptyMap
    /\ rootComments = <<>>
    /\ organized = FALSE
    /\ HeapIdle
    /\ FetchIdle
    /\ RenderIdle
    /\ commentItems = <<>>
    /\ LikeIdle
    /\ AddIdle

AuthFrame == UNCHANGED <<treeVars, filterVars, heapVars, fetchVars, rendered, commentItems, likeVars, addVars>>

\* The AuthProvider with a visitor on the protected routes.
NextAuth ==
    \/ (CheckAuthentication /\ AuthFrame)
    \/ (SignInStart /\ AuthFrame)
    \/ (SignInSucceeds /\ AuthFrame)
    \/ (SignInFails /\ AuthFrame)
    \/ (Logout /\ AuthFrame)
    \/ (UpdateProfileStart /\ AuthFrame)
    \/ (UpdateProfileSucceeds /\ AuthFrame)
    \/ (UpdateProfileFails /\ AuthFrame)
    \/ (OpenProtectedRoute /\ AuthFrame)
    \/ (FollowRedirect /\ AuthFrame)
    \/ (LeaveRoute /\ AuthFrame)

SpecAuth == InitAuth /\ [][NextAuth]_vars

\* The comment section with a list to render, for a visitor signed in or not.
InitThread ==
    /\ comments \in ThreadLists
    /\ commentMap = EmptyMap
    /\ rootComments = <<>>
    /\ organized = FALSE
    /\ commentItems = <<>>
    /\ authState \in {logout} \cup {signInSettled(TRUE, u) : u \in Roles}
    /\ session = authState.user
    /\ authPending = {}
    /\ route = "none"
    /\ lastAuth = NoAuthOp
    /\ FilterInit
    /\ HeapIdle
    /\ FetchIdle
    /\ RenderIdle
    /\ LikeIdle
    /\ AddIdle

NextThread ==
    RenderCommentSection /\ UNCHANGED <<authVars, likeVars, addVars, filterVars, heapVars, fetchVars, rendered>>

SpecThread == InitThread /\ [][NextThread]_vars

\* The comment section of a blog with the BlogProvider's addBlogComment.
InitComment ==
    /\ InitThread
    /\ Len(comments) <= MaxExisting

CommentFrame == UNCHANGED <<authVars, likeVars, filterVars, heapVars, fetchVars, rendered>>

NextComment ==
    \/ (RenderCommentSection /\ UNCHANGED addVars /\ CommentFrame)
    \/ (HandleAddComment /\ CommentFrame)
    \/ (AddCommentSucceeds /\ CommentFrame)
    \/ (AddCommentUnsuccessful /\ CommentFrame)
    \/ (AddCommentThrows /\ CommentFrame)

SpecComment == InitComment /\ [][NextComment]_vars

LikeFrame ==
    UNCHANGED <<treeVars, filterVars, heapVars, fetchVars, rendered, authVars, commentItems, addVars>>

\* The blog detail view with its like button.  After likeBlog has set
\* currentBlog, the effect on it and the rest of handleLike run in either
\* order.
NextLike ==
    \/ (FetchBlogSucceeds /\ LikeFrame)
    \/ (CurrentBlogEffect /\ LikeFrame)
    \/ (HandleLike /\ LikeFrame)
    \/ (LikeBlogSucceeds /\ LikeFrame)
    \/ (LikeBlogFails /\ LikeFrame)
    \/ (HandleLikeResumes /\ LikeFrame)

SpecLike == Init /\ [][NextLike]_vars

\* The comment tree builder on objects, applied to every bounded list.
InitHeap ==
    /\ HeapInit
    /\ FilterInit
    /\ comments = <<>>
    /\ commentMap = EmptyMap
    /\ rootComments = <<>>
    /\ organized = FALSE
    /\ FetchIdle
    /\ RenderIdle
    /\ AppIdle

NextHeap == OrganizeCommentsHeap /\ UNCHANGED <<appVars, treeVars, filterVars, fetchVars, rendered>>

SpecHeap == InitHeap /\ [][NextHeap]_vars

(***************************************************************************)
(*                     PROPERTIES: COMMENT TREE BUILDER                    *)
(***************************************************************************)

IdsOf(all) == {all[i].id : i \in 1 .. Len(all)}

\* the comment's parentId is present and names no comment of the list
IsOrphan(all, c) == c.parentId # NoParent /\ c.parentId \notin IdsOf(all)

NoOrphans(all) == \A i \in 1 .. Len(all) : ~IsOrphan(all, all[i])

\* the position in the list of the comment with this id (ids are unique)
Pos(all, id) == CHOOSE i \in 1 .. Len(all) : all[i].id = id

\* following parentId from the comment `id` ends at a root within `fuel` steps
RECURSIVE ChainEndsAtRoot(_, _, _)
ChainEndsAtRoot(all, id, fuel) ==
    /\ id \in IdsOf(all)
    /\ LET c == all[Pos(all, id)] IN
        \/ c.parentId = NoParent
        \/ (fuel > 0 /\ ChainEndsAtRoot(all, c.parentId, fuel - 1))

\* no comment is its own ancestor
NoParentCycles(all) ==
    \A i \in 1 .. Len(all) :
        all[i].parentId \in IdsOf(all) => ChainEndsAtRoot(all, all[i].id, Len(all))

Occurrences(s, x) == Cardinality({k \in 1 .. Len(s) : s[k] = x})

\* the flattened forest holds every input comment exactly once, and nothing else
EveryCommentOnce ==
    /\ Len(Flattened) = Len(comments)
    /\ \A i \in 1 .. Len(comments) :
        /\ Occurrences(Flattened, comments[i].id) = 1
        /\ commentMap[comments[i].id].comment = comments[i]

\* C1 as stated: for every comment list without orphan references, the forest
\* organizeComments returns, flattened depth first, holds exactly the n input
\* comments, each exactly once.
C1_ForestCompleteness_Original ==
    (organized /\ NoOrphans(comments)) => EveryCommentOnce

\* C1 amended: for every comment list without orphan references and without
\* parent cycles (no comment is its own parent or ancestor), the flattened
\* forest holds exactly the n input comments, each exactly once.
C1_ForestCompleteness ==
    (organized /\ NoOrphans(comments) /\ NoParentCycles(comments)) => EveryCommentOnce

\* a root, a reply to it and a reply to that reply, all three in the forest
C1_Witness ==
    /\ organized
    /\ Len(comments) = 3
    /\ NoOrphans(comments) /\ NoParentCycles(comments)
    /\ Len(rootComments) = 1
    /\ \E k \in DOMAIN commentMap :
        /\ k # rootComments[1]
        /\ Len(commentMap[k].replies) = 1
    /\ Len(Flattened) = 3

\* the ids referenced anywhere in the returned structure
AttachedSomewhere(id) ==
    \/ Includes(rootComments, id)
    \/ \E k \in DOMAIN commentMap : Includes(commentMap[k].replies, id)

\* C2: a comment whose parentId names an id absent from the list appears
\* nowhere in the returned forest, neither as a root nor as a reply; the list
\* holding only such a comment yields the empty forest.
C2_OrphanPolicy ==
    organized =>
        /\ \A i \in 1 .. Len(comments) :
            IsOrphan(comments, comments[i]) =>
                /\ ~AttachedSomewhere(comments[i].id)
                /\ ~Includes(Flattened, comments[i].id)
        /\ (Len(comments) = 1 /\ IsOrphan(comments, comments[1])) => rootComments = <<>>

\* an orphan next to a root that has a reply: the orphan is left out
C2_Witness ==
    /\ organized
    /\ Len(comments) = 3
    /\ \E i \in 1 .. 3 : IsOrphan(comments, comments[i])
    /\ Len(Flattened) = 2
    /\ Len(rootComments) = 1

\* the sequence of ids lists exactly the comments satisfying Test, in list order
InListOrder(ids, Test(_)) ==
    /\ \A a, b \in 1 .. Len(ids) : a < b => Pos(comments, ids[a]) < Pos(comments, ids[b])
    /\ {ids[a] : a \in 1 .. Len(ids)} =
            {comments[i].id : i \in {j \in 1 .. Len(comments) : Test(comments[j])}}

\* C3: the roots appear in the order of the input list, and every comment's
\* replies lists its direct replies in the order of the input list.
C3_OrderPreservation ==
    organized =>
        /\ InListOrder(rootComments, LAMBDA c : c.parentId = NoParent)
        /\ \A k \in DOMAIN commentMap :
            InListOrder(commentMap[k].replies, LAMBDA c : c.parentId = k)

\* a root comment with two replies
C3_Witness ==
    /\ organized
    /\ \E k \in DOMAIN commentMap :
        /\ Len(commentMap[k].replies) = 2
        /\ Includes(rootComments, k)

(***************************************************************************)
(*                  PROPERTIES: FILTER / URL SYNCHRONISER                  *)
(***************************************************************************)

\* the BlogList handlers that go through applyFilters
ApplyOps == {"applyFilters", "handleSearchSubmit", "removeSearch",
             "handleCategoryToggle", "handleSortChange"}

\* C4: after applyFilters(p), whatever the offset was, the filter's offset is
\* 0, every field of p has p's value and every other field but offset is as
\* it was before the call.
C4_PaginationReset ==
    lastOp.op \in ApplyOps =>
        /\ filters.offset = Some(0)
        /\ \A k \in Fields \ {"offset"} :
            filters[k] = IF k \in DOMAIN lastOp.partial
                         THEN lastOp.partial[k] ELSE lastOp.filters[k]

\* a search submitted from page three
C4_Witness ==
    /\ lastOp.op = "handleSearchSubmit"
    /\ lastOp.partial = [search |-> Some("react")]
    /\ lastOp.filters.offset = Some(2 * BlogListLimit)
    /\ filters.offset = Some(0)
    /\ filters.search = Some("react")

\* C5: handlePageChange(page) sets offset to (page - 1) * limit with the
\* filter's current limit and changes no other field (so it does not go back
\* to page one); offset / limit + 1 of the result is page again.
C5_PageComputation ==
    lastOp.op = "handlePageChange" =>
        /\ lastOp.filters.limit # None
        /\ filters.offset = Some((lastOp.page - 1) * Get(lastOp.filters.limit))
        /\ \A k \in Fields \ {"offset"} : filters[k] = lastOp.filters[k]
        /\ (Get(filters.offset) \div Get(filters.limit)) + 1 = lastOp.page

\* page 3 with limit 12 gives offset 24
C5_Witness ==
    /\ lastOp.op = "handlePageChange"
    /\ lastOp.page = 3
    /\ filters.limit = Some(12)
    /\ filters.offset = Some(24)

\* the default a view starts from, with that view's own page size
ViewDefault(limit) ==
    [search |-> None, categories |-> None, status |-> None,
     sortBy |-> Some("createdAt"), sortOrder |-> Some("desc"),
     limit |-> Some(limit), offset |-> Some(0)]

\* C6 as stated: in the blog-list view, clearFilters() followed by
\* applyFilters({}) leaves the filter with sortBy createdAt, sortOrder desc,
\* offset 0 and the view's default limit.
C6_DefaultIdempotence ==
    [][(lastOp.op = "clearAllFilters" /\ lastOp'.op = "applyFilters") =>
         \A k \in {"sortBy", "sortOrder", "offset", "limit"} :
            filters'[k] = ViewDefault(BlogListLimit)[k]]_vars

\* C7 as stated: clearing all filters of the blog-list view leaves the filter
\* exactly {sortBy createdAt, sortOrder desc, limit L, offset 0}, L the limit
\* the view initialises its filter with, and the URL query empty.
C7_ClearFilters ==
    lastOp.op = "clearAllFilters" =>
        /\ filters = ViewDefault(BlogListLimit)
        /\ searchParams = EmptyParams

\* C8: in the Search view at most one category is ever selected; toggling an
\* unselected category makes it the only selection, toggling the selected one
\* leaves none.
C8_SingleCategory ==
    /\ Len(searchSelected) <= 1
    /\ lastOp.op = "searchCategoryToggle" =>
        searchSelected = IF Includes(lastOp.selected, lastOp.cat)
                         THEN <<>> ELSE <<lastOp.cat>>

\* tech was selected, science is toggled: only science is selected
C8_Witness ==
    /\ lastOp.op = "searchCategoryToggle"
    /\ lastOp.selected = <<"tech">>
    /\ lastOp.cat = "science"
    /\ searchSelected = <<"science">>

NoDuplicates(s) == \A i, j \in 1 .. Len(s) : s[i] = s[j] => i = j

\* C9: in the blog-list view toggling an unselected category appends it,
\* toggling a selected one removes it, the selection never holds a value
\* twice, and after a toggle the filter's categories is the selection (unset
\* when empty) with offset 0.
C9_MultiCategory ==
    /\ NoDuplicates(selectedCategories)
    /\ lastOp.op = "handleCategoryToggle" =>
        /\ selectedCategories =
              IF Includes(lastOp.selected, lastOp.cat)
              THEN Without(lastOp.selected, lastOp.cat)
              ELSE lastOp.selected \o <<lastOp.cat>>
        /\ filters.categories =
              IF selectedCategories = <<>> THEN None ELSE Some(selectedCategories)
        /\ filters.offset = Some(0)

\* two categories selected at once
C9_Witness ==
    /\ lastOp.op = "handleCategoryToggle"
    /\ lastOp.selected = <<"tech">>
    /\ selectedCategories = <<"tech", "science">>
    /\ filters.categories = Some(<<"tech", "science">>)

\* an empty search string and no search are the same search
SameSearch(a, b) == (Truthy(a) \/ Truthy(b)) => a = b

\* C10 as stated: reloading the blog-list view on the URL applyFilters derived
\* from the filter F rebuilds a filter equal to F on search, categories,
\* sortBy and sortOrder.
C10_UrlRoundTrip_Original ==
    [][(lastOp.op \in ApplyOps /\ lastOp'.op = "reloadBlogList") =>
         /\ SameSearch(filters'.search, filters.search)
         /\ filters'.categories = filters.categories
         /\ filters'.sortBy = filters.sortBy
         /\ filters'.sortOrder = filters.sortOrder]_vars

\* C10 amended: the rebuilt filter equals F on search (an empty search string
\* counting as none), sortBy and sortOrder, and its categories holds only the
\* first category of F: it equals F's categories when F has at most one.
C10_UrlRoundTrip ==
    [][(lastOp.op \in ApplyOps /\ lastOp'.op = "reloadBlogList") =>
         /\ SameSearch(filters'.search, filters.search)
         /\ filters'.categories =
               IF filters.categories = None THEN None
               ELSE Some(<<Get(filters.categories)[1]>>)
         /\ (filters.categories # None /\ Len(Get(filters.categories)) <= 1
                => filters'.categories = filters.categories)
         /\ filters'.sortBy = filters.sortBy
         /\ filters'.sortOrder = filters.sortOrder]_vars

\* a reload on a URL only applyFilters can have written (sort=likes), from a
\* filter with a search and one category
C10_Witness ==
    /\ lastOp.op = "reloadBlogList"
    /\ searchParams.sort = Some("likes")
    /\ lastOp.filters.search = Some("react")
    /\ lastOp.filters.categories = Some(<<"science">>)
    /\ filters.search = Some("react")
    /\ filters.categories = Some(<<"science">>)
    /\ filters.sortBy = Some("likes")

\* the user-initiated filter changes of the blog-list view
UserFilterOps == {"handleSearchSubmit", "removeSearch", "handleCategoryToggle",
                  "handleSortChange", "clearAllFilters"}

\* C11: after every user-initiated filter change of the blog-list view the
\* URL has `search` exactly when the filter's search is non-empty, with its
\* value; `category` exactly when categories is non-empty, with its first
\* element; and `sort` / `order`, when present, equal to sortBy / sortOrder.
C11_FilterUrlSync ==
    lastOp.op \in UserFilterOps =>
        /\ (searchParams.search # None) = Truthy(filters.search)
        /\ searchParams.search # None => searchParams.search = filters.search
        /\ (searchParams.category # None) =
              (filters.categories # None /\ Len(Get(filters.categories)) > 0)
        /\ searchParams.category # None =>
              Get(searchParams.category) = Get(filters.categories)[1]
        /\ searchParams.sort # None => searchParams.sort = filters.sortBy
        /\ searchParams.order # None => searchParams.order = filters.sortOrder

\* a toggle with a search set and two categories selected: the URL carries
\* the search and the first category
C11_Witness ==
    /\ lastOp.op = "handleCategoryToggle"
    /\ filters.search = Some("react")
    /\ filters.categories = Some(<<"science", "tech">>)
    /\ searchParams.search = Some("react")
    /\ searchParams.category = Some("science")

\* C12 as stated: the URL applyFilters derives omits `sort` and `order` when
\* the resulting filter has the default sort createdAt / desc.
C12_MinimalUrl_Original ==
    (lastOp.op \in ApplyOps
        /\ filters.sortBy = Some("createdAt") /\ filters.sortOrder = Some("desc")) =>
        /\ searchParams.sort = None
        /\ searchParams.order = None

\* C12 amended: the URL applyFilters derives holds `search` and `category`
\* only when they are set, never `q`, and `sort` / `order` whenever sortBy /
\* sortOrder are defined, which in the blog-list view is always: with the
\* default sort the URL reads sort=createdAt and order=desc.
C12_MinimalUrl ==
    lastOp.op \in ApplyOps =>
        /\ filters.sortBy # None /\ searchParams.sort = filters.sortBy
        /\ filters.sortOrder # None /\ searchParams.order = filters.sortOrder
        /\ ~Truthy(filters.search) => searchParams.search = None
        /\ filters.categories = None => searchParams.category = None
        /\ searchParams.q = None

\* a search submitted under the default sort: the URL names the default sort
C12_Witness ==
    /\ lastOp.op = "handleSearchSubmit"
    /\ filters.sortBy = Some("createdAt") /\ filters.sortOrder = Some("desc")
    /\ searchParams.sort = Some("createdAt")
    /\ searchParams.order = Some("desc")
    /\ searchParams.category = None

\* BlogFilters.sortBy and BlogFilters.sortOrder
SortByValues == {"createdAt", "publishedAt", "title", "likes", "views"}
SortOrderValues == {"asc", "desc"}

\* C13 as stated: in every reachable state the filter's sortBy and sortOrder
\* are defined, sortBy one of createdAt, publishedAt, title, likes, views and
\* sortOrder one of asc, desc.
C13_SortState ==
    /\ filters.sortBy # None /\ Get(filters.sortBy) \in SortByValues
    /\ filters.sortOrder # None /\ Get(filters.sortOrder) \in SortOrderValues

(***************************************************************************)
(*              organizeComments: totality, frame, inputs                  *)
(***************************************************************************)

HeapOrphan(i) ==
    /\ allComments[i].parentId # NoParent
    /\ \A j \in 1 .. Len(allComments) : allComments[j].id # allComments[i].parentId

HeapSelfParent(i) == allComments[i].parentId = allComments[i].id

HeapDuplicateId == \E i, j \in 1 .. Len(allComments) : i < j /\ allComments[i].id = allComments[j].id

\* the records of the argument that have no parentId, by position
RootPositions == SelectSeq([i \in 1 .. Len(allComments) |-> i],
                           LAMBDA i : allComments[i].parentId = NoParent)

NodeRefs == {Node(i) : i \in 1 .. Len(allComments)}
InputRefs == {In(i) : i \in 1 .. Len(allComments)}

\* C18: organizeComments is total. For every list (orphan references,
\* self-parents, parent cycles, the empty list, repeated ids) the call has a
\* result, it ends without an exception, and what it returns is a sequence
\* of comment objects: one per record without parentId, in list order.
C18_Total ==
    /\ outcome = "pending" => organizeCommentsHeap(allComments).threw = FALSE
    /\ outcome # "threw"
    /\ outcome = "returned" =>
        /\ Len(returned) = Len(RootPositions)
        /\ \A k \in 1 .. Len(returned) :
            /\ returned[k] \in DOMAIN heap
            /\ returned[k] = nodeOf[allComments[RootPositions[k]].id]

\* the call returned on a list of three with a repeated id, an orphan
\* reference and a comment that is its own parent
C18_Witness ==
    /\ outcome = "returned"
    /\ Len(allComments) = MaxHeapComments
    /\ HeapDuplicateId
    /\ \E i \in 1 .. Len(allComments) : HeapOrphan(i)
    /\ \E i \in 1 .. Len(allComments) : HeapSelfParent(i)

\* every reference an output object holds: the map's, the returned list's
\* and the replies of the objects these name
OutputRefs ==
    LET top == {nodeOf[k] : k \in DOMAIN nodeOf} \cup {returned[k] : k \in 1 .. Len(returned)} IN
    top \cup UNION {IF heap[r].replies = None THEN {}
                    ELSE {Get(heap[r].replies)[k] : k \in 1 .. Len(Get(heap[r].replies))}
                    : r \in top}

\* C19: organizeComments does not mutate the caller's data. After the call
\* every record of the argument has the fields it had before, `replies`
\* included, and no object of the output is one of the caller's records.
C19_NoMutation ==
    outcome = "returned" =>
        /\ \A i \in 1 .. Len(allComments) : heap[In(i)] = allComments[i]
        /\ OutputRefs \cap InputRefs = {}

\* the call returned; a record that carried a stale `replies` array got a
\* reply attached to its copy, and the record still carries its own array
C19_Witness ==
    /\ outcome = "returned"
    /\ \E i \in 1 .. Len(allComments) :
        /\ allComments[i].replies # None
        /\ heap[In(i)].replies = allComments[i].replies
        /\ nodeOf[allComments[i].id] = Node(i)
        /\ heap[Node(i)].replies # None
        /\ Len(Get(heap[Node(i)].replies)) > 0

\* the argument with every `replies` removed
StripReplies(all) == [i \in 1 .. Len(all) |-> [all[i] EXCEPT !.replies = None]]

\* the output of a call, input `replies` aside: the returned list, the map
\* and, per copy, its id, parentId and replies
OutputOf(hs, n) ==
    [roots |-> hs.roots,
     map   |-> hs.map,
     nodes |-> [r \in {Node(i) : i \in 1 .. n} |-> hs.heap[r]]]

\* what the parentId references alone give as replies of the object the map
\* holds for id: the map's objects of the records whose parentId is id
RepliesByParent(id) ==
    LET children == SelectSeq([i \in 1 .. Len(allComments) |-> i],
                              LAMBDA i : allComments[i].parentId = id) IN
    [k \in 1 .. Len(children) |-> nodeOf[allComments[children[k]].id]]

\* C20: the forest does not depend on the `replies` the input carries. The
\* output for a list equals the output for the same list without its
\* `replies`, and the replies of every output object are given by the
\* parentId references alone.
C20_RepliesIgnored ==
    outcome = "returned" =>
        /\ LET n == Len(allComments) IN
           OutputOf([heap |-> heap, map |-> nodeOf, roots |-> returned], n)
             = OutputOf(organizeCommentsHeap(StripReplies(allComments)), n)
        /\ \A id \in DOMAIN nodeOf :
             heap[nodeOf[id]].replies = Some(RepliesByParent(id))

\* the call returned on a list in which a record that nobody replies to
\* carried a stale `replies` array: its copy has no replies
C20_Witness ==
    /\ outcome = "returned"
    /\ Len(allComments) >= 2
    /\ \E i \in 1 .. Len(allComments) :
        /\ allComments[i].replies = Some(<<In(1)>>)
        /\ nodeOf[allComments[i].id] = Node(i)
        /\ heap[Node(i)].replies = Some(<<>>)

(***************************************************************************)
(*                     THE BLOG FETCH: CLAIMS                              *)
(***************************************************************************)

\* no fetch effect is due and no response is awaited
FetchQuiet == ~effectPending /\ inFlight = <<>>

\* offset / limit + 1 of a filter object
DisplayPage(f) == (Get(f.offset) \div Get(f.limit)) + 1

\* C14: page/offset consistency. Once the blog list has no fetch due or
\* pending, the page it displays (currentPage) is offset / limit + 1 of the
\* filter object.
C14_PageConsistency ==
    (view = "list" /\ FetchQuiet) => currentPage = DisplayPage(filters)

\* C16: fetch follows filter. Every step that changes the filter object
\* either issues a fetch with the new filter object or leaves the fetch
\* effect due for it.
C16_FetchFollowsFilter ==
    [][filters' # filters => (effectPending' \/ lastFetch' = Some(filters'))]_vars

\* C17: no rollback on fetch failure. The step in which a fetch ends with an
\* unsuccessful response or a rejected promise leaves the filter object and
\* the URL query as they were and sets isLoading to false.
C17_NoRollback ==
    [][(FetchUnsuccessful \/ FetchRejects) =>
          /\ filters' = filters
          /\ searchParams' = searchParams
          /\ isLoading' = FALSE]_vars

\* the visitor went to page 2, the fetch for that filter object was rejected,
\* and the filter object and URL still hold what the page change set
C17_Witness ==
    /\ lastOp.op = "handlePageChange"
    /\ lastSettled = "rejected"
    /\ FetchQuiet
    /\ lastFetch = Some(filters)
    /\ filters.offset = Some(BlogListLimit)
    /\ filters.categories = Some(<<"tech">>)
    /\ searchParams.category = Some("tech")
    /\ ~isLoading

(***************************************************************************)
(*                  CALLS WITHIN ONE RENDER: CLAIMS                        *)
(***************************************************************************)

\* C15: latest update wins. After a call, the filter object is the call's
\* update applied to the filter object the preceding calls left, also when
\* the call came before the view rendered again.
C15_LatestUpdateWins ==
    /\ lastOp.op \in ApplyOps => filters = Merge(lastOp.filters, lastOp.partial)
    /\ lastOp.op = "handlePageChange" =>
         filters = [lastOp.filters EXCEPT
                      !.offset = Some(PageOffset(lastOp.filters, lastOp.page))]

(***************************************************************************)
(*               URL CONTENT, SEARCH VIEW, PUBLISHED ONLY                  *)
(***************************************************************************)

\* parameter names that would carry pagination
PaginationKeys == {"offset", "limit", "page"}

\* the handlers that write the URL query of the blog list
UrlWriters == ApplyOps \cup {"clearAllFilters"}

\* C21: pagination stays out of the URL. A step of applyFilters (through any
\* of its callers) or of clearAllFilters leaves no offset, limit or page
\* parameter in the URL query, and a step of handlePageChange leaves the URL
\* query as it was.
C21_NoPaginationInUrl ==
    [][/\ lastOp'.op \in UrlWriters => DOMAIN searchParams' \cap PaginationKeys = {}
       /\ lastOp'.op = "handlePageChange" =>
            /\ searchParams' = searchParams
            /\ DOMAIN searchParams' \cap PaginationKeys = {}]_vars

\* the visitor searched for "react" and went to page 3: the offset is 24 and
\* the URL query holds the search only
C21_Witness ==
    /\ lastOp.op = "handlePageChange"
    /\ lastOp.page = MaxPage
    /\ filters.offset = Some((MaxPage - 1) * BlogListLimit)
    /\ filters.search = Some("react")
    /\ searchParams = [EmptyParams EXCEPT !.search = Some("react"),
                                          !.sort = Some("createdAt"),
                                          !.order = Some("desc")]

\* the handlers of Search that call handleSearch(searchQuery', searchSelected')
HandleSearchOps == {"searchSubmit", "searchRemoveQuery", "searchCategoryToggle"}

\* C22: after Search.handleSearch(query, categories) the URL query has `q` =
\* query iff query is non-empty, never `search`, and `category` = the first
\* selected category iff one is selected; the filter object has search =
\* query (unset when empty), categories = the selection (unset when empty),
\* status published, sortBy createdAt, sortOrder desc and limit 20.
C22_SearchViewUrl ==
    (lastOp.op \in HandleSearchOps \/ (lastOp.op = "openSearch" /\ searchSubmitted)) =>
        LET categories == IF lastOp.op = "openSearch"
                          THEN (IF filters.categories = None THEN <<>>
                                ELSE Get(filters.categories))
                          ELSE searchSelected IN
        /\ searchParams.q = (IF searchQuery # "" THEN Some(searchQuery) ELSE None)
        /\ searchParams.search = None
        /\ searchParams.category =
             (IF Len(categories) > 0 THEN Some(categories[1]) ELSE None)
        /\ searchParams.sort = None /\ searchParams.order = None
        /\ filters.search = (IF searchQuery # "" THEN Some(searchQuery) ELSE None)
        /\ filters.categories = (IF Len(categories) > 0 THEN Some(categories) ELSE None)
        /\ filters.status = Some("published")
        /\ filters.sortBy = Some("createdAt")
        /\ filters.sortOrder = Some("desc")
        /\ filters.limit = Some(SearchLimit)

\* "react" is searched with the category "tech" selected
C22_Witness ==
    /\ lastOp.op = "searchCategoryToggle"
    /\ searchQuery = "react"
    /\ searchSelected = <<"tech">>
    /\ searchParams.q = Some("react")
    /\ searchParams.category = Some("tech")
    /\ filters.search = Some("react")
    /\ filters.categories = Some(<<"tech">>)

\* C24: while the blog list is mounted, the filter object asks for published
\* blogs only.
C24_PublishedOnly ==
    view = "list" => filters.status = Some("published")

(***************************************************************************)
(*                 AuthProvider, ProtectedRoute: CLAIMS                    *)
(***************************************************************************)

\* C27: ProtectedRoute renders its children only when authentication is not
\* loading, the user is authenticated and, on an adminOnly route, the user's
\* role is admin. While loading it renders the spinner only; when not
\* authenticated it redirects to the login path; an authenticated non-admin
\* on an adminOnly route is redirected to /dashboard.
C27_ProtectedRoute ==
    \A adminOnly \in BOOLEAN :
        LET shown == ProtectedRoute(adminOnly)
            isAdmin == authState.user = Some("admin") IN
        /\ shown = "children" <=>
             (~authState.isLoading /\ authState.isAuthenticated /\ (adminOnly => isAdmin))
        /\ authState.isLoading => shown = "spinner"
        /\ (~authState.isLoading /\ ~authState.isAuthenticated) => shown = "login"
        /\ (~authState.isLoading /\ authState.isAuthenticated /\ adminOnly /\ ~isAdmin)
             => shown = "dashboard"

\* a signed-in user without the admin role is on the adminOnly route and is
\* sent to /dashboard, while a plain protected route would show its children
C27_Witness ==
    /\ route = "adminOnly"
    /\ authState.user = Some("user")
    /\ authState.isAuthenticated
    /\ ~authState.isLoading
    /\ RouteRenders = "dashboard"
    /\ ProtectedRoute(FALSE) = "children"

\* C28: auth state consistency. isAuthenticated is true exactly when user is
\* non-null and exactly when token is non-null; a failed login or register
\* leaves user, token and isAuthenticated as they were; logout yields user
\* null, token null, isAuthenticated false.
C28_AuthConsistency ==
    /\ authState.isAuthenticated <=> authState.user # None
    /\ authState.isAuthenticated <=> authState.token # None
    /\ lastAuth.op \in {"loginFailed", "registerFailed"} =>
         /\ authState.user = lastAuth.before.user
         /\ authState.token = lastAuth.before.token
         /\ authState.isAuthenticated = lastAuth.before.isAuthenticated
    /\ lastAuth.op = "logout" =>
         /\ authState.user = None
         /\ authState.token = None
         /\ ~authState.isAuthenticated

(***************************************************************************)
(*                     THE RENDERED THREAD: CLAIMS                         *)
(***************************************************************************)

\* the number of parentId steps from the comment `id` up to its root
RECURSIVE NestingDepth(_, _, _)
NestingDepth(all, id, fuel) ==
    IF fuel = 0 \/ all[Pos(all, id)].parentId = NoParent THEN 0
    ELSE 1 + NestingDepth(all, all[Pos(all, id)].parentId, fuel - 1)

\* the comments of the list that are in the forest: their chain ends at a root
InForest(all) == {id \in IdsOf(all) : ChainEndsAtRoot(all, id, Len(all))}

\* C23: the reply depth cap is presentation only. The Reply control shows on
\* a comment exactly when a user is signed in and the comment's nesting depth
\* is below 3; every comment of the forest is rendered, once, at every depth.
C23_ReplyCap ==
    organized =>
        /\ \A k \in 1 .. Len(commentItems) :
             /\ commentItems[k].depth = NestingDepth(comments, commentItems[k].id, Len(comments))
             /\ commentItems[k].reply <=>
                  (authState.user # None /\
                   NestingDepth(comments, commentItems[k].id, Len(comments)) < 3)
        /\ {commentItems[k].id : k \in 1 .. Len(commentItems)} = InForest(comments)
        /\ Len(commentItems) = Cardinality(InForest(comments))

\* a signed-in user sees a chain of four comments: the fourth, at depth 3, is
\* rendered without the Reply control, the third has it
C23_Witness ==
    /\ organized
    /\ authState.user # None
    /\ Len(comments) = 4
    /\ \E k, j \in 1 .. Len(commentItems) :
        /\ commentItems[k].depth = 3 /\ ~commentItems[k].reply
        /\ commentItems[j].depth = 2 /\ commentItems[j].reply

(***************************************************************************)
(*                   OVERLAPPING FETCHES: CLAIMS                           *)
(***************************************************************************)

\* C25: displayed results match the latest filter. Once every fetchBlogs call
\* has completed, and the call issued last was for the current filter object
\* and succeeded, the provider holds that call's response, in whatever order
\* the responses arrived.
C25_LatestResponseShown ==
    (FetchQuiet /\ latestFetch = "ok" /\ lastFetch = Some(filters)) =>
        currentPage = ResponsePage(filters)

\* C26: isLoading is true while a loading operation of the BlogProvider is in
\* flight, and false once all have completed.
C26_LoadingFlag ==
    /\ inFlight # <<>> => isLoading
    /\ inFlight = <<>> => ~isLoading

(***************************************************************************)
(*                            LIKES: CLAIMS                                *)
(***************************************************************************)

\* C29: like state persists. When the toggle that completed last succeeded
\* with liked = true, and no state update or effect is outstanding, isLiked
\* is true and likeCount is the likeCount that toggle returned.
C29_LikePersists ==
    (likePc = "idle" /\ ~blogEffectDue /\ lastLike # None /\ Get(lastLike).liked) =>
        /\ isLiked
        /\ likeCount = Get(lastLike).likeCount

(***************************************************************************)
(*                      ADDING A COMMENT: CLAIMS                           *)
(***************************************************************************)

============================================================================
